---- MODULE Spec2Model ----
(***************************************************************************)
(* Model of auto-selfcontrol.py: the weekly block-schedule evaluation      *)
(* (is_schedule_active, get_end_date_of_schedule), the expansion of the    *)
(* schedules into launchd calendar triggers                                *)
(* (get_launchscript_startintervals) and the control flow of run().        *)
(*                                                                         *)
(* A datetime is a record [day, hour, minute, second]; day counts calendar *)
(* days from a Monday.  A schedule is a record with the keys start_hour,   *)
(* start_minute, end_hour, end_minute and, optionally, weekday (a missing  *)
(* key models both an absent JSON key and a JSON null).                    *)
(***************************************************************************)
EXTENDS Integers, Sequences, FiniteSets, TLC

VARIABLES
    config,           \* the loaded run_config.json / config.json
    clock,            \* the system clock, read by datetime.today()
    pc,               \* position of the process
    idx,              \* position of the generator over config["block-schedules"]
    reads,            \* the readings datetime.today() has returned, in order
    schedule,         \* run(): index of the selected schedule (0: none yet)
    block_end_date,   \* <<>> or <<the string get_end_date_of_schedule returned>>
    blocklist,        \* <<>> or <<the plist written to {settings}/blocklist>>
    selfcontrol_args, \* argument lists SelfControl was executed with, in order
    exit_status,      \* {} while running, {n} after exit(n)
    ticks,            \* clock ticks seen since the process started
    active,           \* <<>> or <<value returned by is_schedule_active>>
    startintervals,   \* <<>> or <<sequence yielded by get_launchscript_startintervals>>
    utc_offset,       \* <<>> or <<local minus UTC reading of time.time(), in seconds>>
    running           \* <<>> or <<what check_if_running found in SelfControl's output>>

vars == <<config, clock, pc, idx, reads, schedule, block_end_date, blocklist,
          selfcontrol_args, exit_status, ticks, active, startintervals,
          utc_offset, running>>

----------------------------------------------------------------------------
(* Bounds of the model *)

\* calendar days 0..MaxDay are modelled (day 0 is a Monday)
MaxDay == 7
\* longest config["block-schedules"] list
MaxSchedules == 2
\* clock ticks during one process run
MaxTicks == 2

SampleHours == {0, 9, 23}
SampleMinutes == {0, 30, 59}
SampleSeconds == {0, 30}

Days == 0..MaxDay

\* hour:minute pairs a schedule may carry
TimesOfDay == {<<h, m>> : h \in SampleHours, m \in SampleMinutes}

\* the values of datetime.today()
Instants ==
    {[day |-> d, hour |-> h, minute |-> m, second |-> s] :
        d \in Days, h \in SampleHours, m \in SampleMinutes, s \in SampleSeconds}

MkSchedule(st, en) ==
    [start_hour |-> st[1], start_minute |-> st[2],
     end_hour |-> en[1], end_minute |-> en[2]]

WithWeekday(s, w) ==
    [k \in DOMAIN s \cup {"weekday"} |-> IF k = "weekday" THEN w ELSE s[k]]

\* schedules over the given times of day and weekday values, with and
\* without the weekday key
SchedulesOver(times, weekdays) ==
    LET plain == {MkSchedule(st, en) : st \in times, en \in times}
    IN  plain \cup {WithWeekday(s, w) : s \in plain, w \in weekdays}

\* weekday 0 is outside the documented range 1..7 but is accepted by the code
AllSchedules == SchedulesOver(TimesOfDay, 0..7)

----------------------------------------------------------------------------
(* datetime arithmetic *)

\* seconds since day 0, 00:00:00: the order of datetime values
Timestamp(t) == ((t.day * 24 + t.hour) * 60 + t.minute) * 60 + t.second

\* (a - b).days of a timedelta: the floor of the difference in days
timedelta_days(a, b) == (Timestamp(a) - Timestamp(b)) \div 86400

\* datetime.isoweekday(): 1 = Monday .. 7 = Sunday
isoweekday(t) == (t.day % 7) + 1

\* datetime(currenttime.year, currenttime.month, currenttime.day, hour, minute)
datetime(currenttime, hour, minute) ==
    [day |-> currenttime.day, hour |-> hour, minute |-> minute, second |-> 0]

----------------------------------------------------------------------------
(* get_schedule_weekdays *)

get_schedule_weekdays_short(sched) ==
    IF "weekday" \in DOMAIN sched THEN <<sched.weekday>> ELSE [i \in 1..6 |-> i]

get_schedule_weekdays(sched) ==
    IF "weekday" \in DOMAIN sched THEN <<sched.weekday>> ELSE [i \in 1..7 |-> i]

----------------------------------------------------------------------------
(* is_schedule_active *)

starttime(sched, currenttime) ==
    datetime(currenttime, sched.start_hour, sched.start_minute)

endtime(sched, currenttime) ==
    datetime(currenttime, sched.end_hour, sched.end_minute)

weekday_diff_no_wrap(currenttime, weekday) ==
    isoweekday(currenttime) - weekday

weekday_diff(currenttime, weekday) ==
    (isoweekday(currenttime) % 7) - (weekday % 7)

\* the branch taken when the schedule's weekday is today
result_today_exclusive_end(sched, currenttime) ==
    LET st == Timestamp(starttime(sched, currenttime))
        en == Timestamp(endtime(sched, currenttime))
        now == Timestamp(currenttime)
    IN  IF timedelta_days(endtime(sched, currenttime), starttime(sched, currenttime)) = 0
        THEN st <= now /\ en > now
        ELSE st <= now

result_today(sched, currenttime) ==
    LET st == Timestamp(starttime(sched, currenttime))
        en == Timestamp(endtime(sched, currenttime))
        now == Timestamp(currenttime)
    IN  IF timedelta_days(endtime(sched, currenttime), starttime(sched, currenttime)) = 0
        THEN st <= now /\ en >= now
        ELSE st <= now

\* the branch taken when the schedule's weekday was yesterday
result_yesterday_never(sched, currenttime) == FALSE

result_yesterday(sched, currenttime) ==
    /\ timedelta_days(endtime(sched, currenttime), starttime(sched, currenttime)) # 0
    /\ Timestamp(currenttime) <= Timestamp(endtime(sched, currenttime))

\* the value of result in one iteration of the loop over the weekdays
weekday_result(sched, currenttime, weekday) ==
    LET diff == weekday_diff(currenttime, weekday)
    IN  IF diff = 0
        THEN result_today(sched, currenttime)
        ELSE IF diff = 1 \/ diff = -6
             THEN result_yesterday(sched, currenttime)
             ELSE FALSE

\* currenttime is the value datetime.today() returns inside the call
is_schedule_active(sched, currenttime) ==
    LET weekdays == get_schedule_weekdays(sched)
    IN  \E i \in 1..Len(weekdays) : weekday_result(sched, currenttime, weekdays[i])

----------------------------------------------------------------------------
(* get_launchscript_startintervals *)

\* the <dict> yielded for one weekday of one schedule
startinterval_end(sched, weekday) ==
    [Weekday |-> weekday, Minute |-> sched.end_minute, Hour |-> sched.end_hour]

startinterval(sched, weekday) ==
    [Weekday |-> weekday, Minute |-> sched.start_minute, Hour |-> sched.start_hour]

schedule_startintervals(sched) ==
    LET weekdays == get_schedule_weekdays(sched)
    IN  [i \in 1..Len(weekdays) |-> startinterval(sched, weekdays[i])]

RECURSIVE dedup(_)
dedup(seq) ==
    IF seq = <<>> THEN <<>>
    ELSE LET front == dedup(SubSeq(seq, 1, Len(seq) - 1))
             last == seq[Len(seq)]
         IN  IF \E i \in 1..Len(front) : front[i] = last
             THEN front ELSE Append(front, last)

RECURSIVE startintervals_of(_)
startintervals_of(schedules) ==
    IF schedules = <<>> THEN <<>>
    ELSE schedule_startintervals(Head(schedules)) \o startintervals_of(Tail(schedules))

get_launchscript_startintervals_dedup(cfg) ==
    dedup(startintervals_of(cfg.block_schedules))

get_launchscript_startintervals(cfg) ==
    startintervals_of(cfg.block_schedules)

----------------------------------------------------------------------------
(* get_end_date_of_schedule *)

DigitChars == <<"0", "1", "2", "3", "4", "5", "6", "7", "8", "9">>

\* str(n) of a non-negative int, as a sequence of characters
RECURSIVE str(_)
str(n) ==
    IF n < 10 THEN <<DigitChars[n + 1]>>
    ELSE Append(str(n \div 10), DigitChars[(n % 10) + 1])

\* s.zfill(width) of a string of digits
RECURSIVE zfill(_, _)
zfill(s, width) == IF Len(s) >= width THEN s ELSE zfill(<<"0">> \o s, width)

abs(x) == IF x < 0 THEN -x ELSE x

\* local UTC offsets in seconds: the quarter-hour steps from -12:00 to +14:00
UtcOffsets == {k * 900 : k \in -48..56}

\* str(int(abs(utc_offset * 100))).zfill(4), utc_offset being seconds / 3600
\* (the float arithmetic is exact for multiples of a quarter of an hour)
offset_string(utc_offset_seconds) ==
    zfill(str((abs(utc_offset_seconds) * 100) \div 3600), 4)

sign_string(utc_offset_seconds) == IF utc_offset_seconds >= 0 THEN "+" ELSE "-"

\* endtime.strftime("%Y-%m-%dT%H:%M:%S" + sign + offset); the date part is kept
\* as the day number, the rest as the characters written after the "T"
strftime(t, sign, offset) ==
    [date |-> t.day,
     time |-> zfill(str(t.hour), 2) \o <<":">> \o zfill(str(t.minute), 2)
              \o <<":">> \o zfill(str(t.second), 2),
     suffix |-> <<sign>> \o offset]

end_anchor_next_day(sched, currenttime) ==
    LET e == endtime(sched, currenttime)
    IN  IF Timestamp(e) < Timestamp(starttime(sched, currenttime))
        THEN [e EXCEPT !.day = @ + 1] ELSE e

\* the endtime computed in get_end_date_of_schedule
end_anchor(sched, currenttime) ==
    datetime(currenttime, sched.end_hour, sched.end_minute)

\* currenttime is the value of datetime.today() inside the call and
\* utc_offset_seconds the difference of the local and the UTC reading of time.time()
get_end_date_of_schedule(sched, currenttime, utc_offset_seconds) ==
    strftime(end_anchor(sched, currenttime),
             sign_string(utc_offset_seconds), offset_string(utc_offset_seconds))

----------------------------------------------------------------------------
(* update_blocklist *)

update_blocklist(cfg, sched) ==
    [HostBlacklist |-> cfg.host_blacklist,
     BlockAsWhitelist |-> IF "block_as_whitelist" \in DOMAIN sched
                          THEN sched.block_as_whitelist ELSE FALSE]

----------------------------------------------------------------------------
(* The system clock *)

Min(S) == CHOOSE x \in S : \A y \in S : x <= y

After(S, x) == {y \in S : y > x}

\* the modelled instant that follows t
NextInstant(t) ==
    IF After(SampleSeconds, t.second) # {}
    THEN [t EXCEPT !.second = Min(After(SampleSeconds, t.second))]
    ELSE IF After(SampleMinutes, t.minute) # {}
    THEN [t EXCEPT !.second = Min(SampleSeconds),
                   !.minute = Min(After(SampleMinutes, t.minute))]
    ELSE IF After(SampleHours, t.hour) # {}
    THEN [t EXCEPT !.second = Min(SampleSeconds), !.minute = Min(SampleMinutes),
                   !.hour = Min(After(SampleHours, t.hour))]
    ELSE [day |-> t.day + 1, hour |-> Min(SampleHours),
          minute |-> Min(SampleMinutes), second |-> Min(SampleSeconds)]

\* the clock advances to the next modelled instant
Tick ==
    /\ pc \notin {"exited", "returned"}
    /\ ticks < MaxTicks
    /\ NextInstant(clock).day <= MaxDay
    /\ clock' = NextInstant(clock)
    /\ ticks' = ticks + 1
    /\ UNCHANGED <<config, pc, idx, reads, schedule, block_end_date, blocklist,
                   selfcontrol_args, exit_status, active, startintervals, utc_offset, running>>

----------------------------------------------------------------------------
(* run *)

\* what the regular expression of check_if_running finds in SelfControl's output
IsRunningOutputs == {"YES", "NO", "no match"}

\* lines 43-56: the run config is looked up and loaded, then check_if_running
run_check_inverted(run_config_exists, output) ==
    /\ pc = "run"
    /\ IF ~run_config_exists
       THEN /\ pc' = "exited"
            /\ exit_status' = {1}
            /\ UNCHANGED <<selfcontrol_args, running>>
       ELSE /\ selfcontrol_args' = Append(selfcontrol_args, <<"--is-running">>)
            /\ running' = <<output>>
            /\ IF output = "no match"
               THEN pc' = "exited" /\ exit_status' = {1}
               ELSE IF output # "YES"
                    THEN pc' = "exited" /\ exit_status' = {2}
                    ELSE pc' = "scan" /\ UNCHANGED exit_status
    /\ UNCHANGED <<config, clock, idx, reads, schedule, block_end_date, blocklist,
                   ticks, active, startintervals, utc_offset>>

run_check(run_config_exists, output) ==
    /\ pc = "run"
    /\ IF ~run_config_exists
       THEN /\ pc' = "exited"
            /\ exit_status' = {1}
            /\ UNCHANGED <<selfcontrol_args, running>>
       ELSE /\ selfcontrol_args' = Append(selfcontrol_args, <<"--is-running">>)
            /\ running' = <<output>>
            /\ IF output = "no match"
               THEN pc' = "exited" /\ exit_status' = {1}
               ELSE IF output # "NO"
                    THEN pc' = "exited" /\ exit_status' = {2}
                    ELSE pc' = "scan" /\ UNCHANGED exit_status
    /\ UNCHANGED <<config, clock, idx, reads, schedule, block_end_date, blocklist,
                   ticks, active, startintervals, utc_offset>>

\* lines 58-64: one step of next(s for s in config["block-schedules"]
\* if is_schedule_active(s)); every call reads the clock
run_scan_keep_going ==
    /\ pc = "scan"
    /\ IF idx > Len(config.block_schedules)
       THEN /\ IF schedule = 0
               THEN pc' = "exited" /\ exit_status' = {0}
               ELSE pc' = "end_date" /\ UNCHANGED exit_status
            /\ UNCHANGED <<idx, reads, schedule>>
       ELSE /\ reads' = Append(reads, clock)
            /\ idx' = idx + 1
            /\ schedule' = IF is_schedule_active(config.block_schedules[idx], clock)
                           THEN idx ELSE schedule
            /\ UNCHANGED <<pc, exit_status>>
    /\ UNCHANGED <<config, clock, block_end_date, blocklist, selfcontrol_args,
                   ticks, active, startintervals, utc_offset, running>>

run_scan ==
    /\ pc = "scan"
    /\ IF idx > Len(config.block_schedules)
       THEN /\ pc' = "exited"
            /\ exit_status' = {0}
            /\ UNCHANGED <<idx, reads, schedule>>
       ELSE /\ reads' = Append(reads, clock)
            /\ IF is_schedule_active(config.block_schedules[idx], clock)
               THEN schedule' = idx /\ pc' = "end_date" /\ UNCHANGED idx
               ELSE idx' = idx + 1 /\ UNCHANGED <<schedule, pc>>
            /\ UNCHANGED exit_status
    /\ UNCHANGED <<config, clock, block_end_date, blocklist, selfcontrol_args,
                   ticks, active, startintervals, utc_offset, running>>

\* line 66: get_end_date_of_schedule(schedule) reads the clock again
run_end_date(utc_offset_seconds) ==
    /\ pc = "end_date"
    /\ reads' = Append(reads, clock)
    /\ utc_offset' = <<utc_offset_seconds>>
    /\ block_end_date' = <<get_end_date_of_schedule(
                              config.block_schedules[schedule], clock, utc_offset_seconds)>>
    /\ pc' = "install"
    /\ UNCHANGED <<config, clock, idx, schedule, blocklist, selfcontrol_args,
                   exit_status, ticks, active, startintervals, running>>

\* lines 67-75: update_blocklist, then SelfControl is started; a config
\* without the host-blacklist key raises KeyError before anything is written
run_install ==
    /\ pc = "install"
    /\ IF "host_blacklist" \in DOMAIN config
       THEN /\ blocklist' = <<update_blocklist(config, config.block_schedules[schedule])>>
            /\ selfcontrol_args' =
                   Append(selfcontrol_args, <<"--install", "blocklist", block_end_date[1]>>)
            /\ pc' = "returned"
            /\ UNCHANGED exit_status
       ELSE /\ pc' = "exited"
            /\ exit_status' = {1}
            /\ UNCHANGED <<blocklist, selfcontrol_args>>
    /\ UNCHANGED <<config, clock, idx, reads, schedule, block_end_date,
                   ticks, active, startintervals, utc_offset, running>>

----------------------------------------------------------------------------
(* Calls of the pure functions on drawn inputs *)

\* get_launchscript_startintervals(config), the generator run to its end
call_get_launchscript_startintervals ==
    /\ pc = "call"
    /\ startintervals = <<>>
    /\ startintervals' = <<get_launchscript_startintervals(config)>>
    /\ UNCHANGED <<config, clock, pc, idx, reads, schedule, block_end_date, blocklist,
                   selfcontrol_args, exit_status, ticks, active, utc_offset, running>>

\* is_schedule_active(config["block-schedules"][0])
call_is_schedule_active ==
    /\ pc = "call"
    /\ startintervals # <<>>
    /\ active = <<>>
    /\ reads' = Append(reads, clock)
    /\ active' = <<is_schedule_active(config.block_schedules[1], clock)>>
    /\ UNCHANGED <<config, clock, pc, idx, schedule, block_end_date, blocklist,
                   selfcontrol_args, exit_status, ticks, startintervals, utc_offset, running>>

\* get_end_date_of_schedule(config["block-schedules"][0])
call_get_end_date_of_schedule(utc_offset_seconds) ==
    /\ pc = "call"
    /\ block_end_date = <<>>
    /\ reads' = Append(reads, clock)
    /\ utc_offset' = <<utc_offset_seconds>>
    /\ block_end_date' = <<get_end_date_of_schedule(
                              config.block_schedules[1], clock, utc_offset_seconds)>>
    /\ UNCHANGED <<config, clock, pc, idx, schedule, blocklist, selfcontrol_args,
                   exit_status, ticks, active, startintervals, running>>

----------------------------------------------------------------------------
(* Specifications *)

\* sequences over S of length 0..n
SeqsUpTo(S, n) == UNION {[1..k -> S] : k \in 0..n}

InitProcess(start) ==
    /\ pc = start
    /\ idx = 1
    /\ reads = <<>>
    /\ schedule = 0
    /\ block_end_date = <<>>
    /\ blocklist = <<>>
    /\ selfcontrol_args = <<>>
    /\ exit_status = {}
    /\ ticks = 0
    /\ active = <<>>
    /\ startintervals = <<>>
    /\ utc_offset = <<>>
    /\ running = <<>>

\* the inputs of run(): the windows 09:00-23:00 and 23:00-09:00 (crossing
\* midnight), on every day or on Mondays, and the empty 09:00-09:00 on every day
RunSchedules ==
    {s \in SchedulesOver({<<9, 0>>, <<23, 0>>}, {1}) :
        s.start_hour # s.end_hour \/ (s.start_hour = 9 /\ "weekday" \notin DOMAIN s)}

\* check_config only warns about a config without host-blacklist
RunConfigs ==
    {[block_schedules |-> ss, host_blacklist |-> <<"example.com">>] :
        ss \in SeqsUpTo(RunSchedules, MaxSchedules)}
    \cup {[block_schedules |-> ss] : ss \in SeqsUpTo(RunSchedules, MaxSchedules)}

RunUtcOffsets == {-34200, 20700}

Init ==
    /\ config \in RunConfigs
    /\ clock \in {t \in Instants : t.day <= 1}
    /\ InitProcess("run")

Next ==
    \/ Tick
    \/ \E run_config_exists \in BOOLEAN, output \in IsRunningOutputs :
           run_check(run_config_exists, output)
    \/ run_scan
    \/ \E utc_offset_seconds \in RunUtcOffsets : run_end_date(utc_offset_seconds)
    \/ run_install

Spec == Init /\ [][Next]_vars

\* is_schedule_active and the triggers of one schedule at one instant
InitActive ==
    /\ config \in {[block_schedules |-> <<s>>] : s \in AllSchedules}
    /\ clock \in Instants
    /\ InitProcess("call")

NextActive ==
    \/ call_get_launchscript_startintervals
    \/ call_is_schedule_active

SpecActive == InitActive /\ [][NextActive]_vars

\* get_launchscript_startintervals of a list of schedules
ExpandSchedules == SchedulesOver({<<0, 0>>, <<9, 30>>}, {0, 1, 7})

InitExpand ==
    /\ config \in {[block_schedules |-> ss] : ss \in SeqsUpTo(ExpandSchedules, MaxSchedules)}
    /\ clock \in {t \in Instants : Timestamp(t) = 0}
    /\ InitProcess("call")

NextExpand == call_get_launchscript_startintervals

SpecExpand == InitExpand /\ [][NextExpand]_vars

\* get_end_date_of_schedule of one schedule at one instant under every offset
EndDateSchedules == SchedulesOver({<<0, 0>>, <<9, 30>>, <<23, 59>>}, {})

InitEndDate ==
    /\ config \in {[block_schedules |-> <<s>>] : s \in EndDateSchedules}
    /\ clock \in Instants
    /\ InitProcess("call")

NextEndDate ==
    \E utc_offset_seconds \in UtcOffsets : call_get_end_date_of_schedule(utc_offset_seconds)

SpecEndDate == InitEndDate /\ [][NextEndDate]_vars

----------------------------------------------------------------------------
(* Vocabulary of the properties *)

\* seconds since midnight
TimeOfDay(hour, minute, second) == hour * 3600 + minute * 60 + second

StartOfDay(s) == TimeOfDay(s.start_hour, s.start_minute, 0)
EndOfDay(s) == TimeOfDay(s.end_hour, s.end_minute, 0)
NowOfDay(t) == TimeOfDay(t.hour, t.minute, t.second)

\* the window crosses midnight
Crosses(s) == EndOfDay(s) < StartOfDay(s)

\* the weekday is unset or in the documented range 1..7
DocumentedWeekday(s) == "weekday" \in DOMAIN s => s.weekday \in 1..7

WeekdaySet(s) == IF "weekday" \in DOMAIN s THEN {s.weekday} ELSE 1..7

DayBefore(weekday) == IF weekday = 1 THEN 7 ELSE weekday - 1

\* the schedule of a single-schedule config
TheSchedule == config.block_schedules[1]

\* the number a string of digits denotes
IsDigit(c) == \E n \in 0..9 : DigitChars[n + 1] = c
DigitValue(c) == CHOOSE n \in 0..9 : DigitChars[n + 1] = c
TwoDigits(chars, i) == DigitValue(chars[i]) * 10 + DigitValue(chars[i + 1])

----------------------------------------------------------------------------
(* C1 *)

\* C1: for a schedule whose window does not cross midnight, is_schedule_active
\* at now is true iff now's ISO weekday is one of the schedule's weekdays and
\* start <= now <= end, both bounds inclusive, on now's date.
C1_SameDayWindow ==
    (active # <<>> /\ DocumentedWeekday(TheSchedule) /\ ~Crosses(TheSchedule)) =>
        (active[1] <=>
            /\ isoweekday(reads[1]) \in WeekdaySet(TheSchedule)
            /\ StartOfDay(TheSchedule) <= NowOfDay(reads[1])
            /\ NowOfDay(reads[1]) <= EndOfDay(TheSchedule))

\* a Monday-style schedule found active exactly at its end, after its start
C1_Witness ==
    /\ active = <<TRUE>>
    /\ "weekday" \in DOMAIN TheSchedule
    /\ TheSchedule.weekday \in 1..7
    /\ StartOfDay(TheSchedule) < EndOfDay(TheSchedule)
    /\ NowOfDay(reads[1]) = EndOfDay(TheSchedule)

----------------------------------------------------------------------------
(* C2 *)

\* C2: for a schedule whose window crosses midnight, is_schedule_active at now
\* is true iff now's weekday is one of the schedule's weekdays and now >= start,
\* or the weekday before now's is one of them and now <= end.
C2_MidnightCrossingWindow ==
    (active # <<>> /\ DocumentedWeekday(TheSchedule) /\ Crosses(TheSchedule)) =>
        (active[1] <=>
            \/ /\ isoweekday(reads[1]) \in WeekdaySet(TheSchedule)
               /\ NowOfDay(reads[1]) >= StartOfDay(TheSchedule)
            \/ /\ DayBefore(isoweekday(reads[1])) \in WeekdaySet(TheSchedule)
               /\ NowOfDay(reads[1]) <= EndOfDay(TheSchedule))

\* a single-weekday crossing schedule found active on the following day
C2_Witness ==
    /\ active = <<TRUE>>
    /\ Crosses(TheSchedule)
    /\ "weekday" \in DOMAIN TheSchedule
    /\ TheSchedule.weekday \in 1..7
    /\ TheSchedule.weekday = DayBefore(isoweekday(reads[1]))

----------------------------------------------------------------------------
(* C6 *)

SundayCrossingOnMondayMorning ==
    /\ active # <<>>
    /\ "weekday" \in DOMAIN TheSchedule
    /\ TheSchedule.weekday = 7
    /\ Crosses(TheSchedule)
    /\ isoweekday(reads[1]) = 1
    /\ NowOfDay(reads[1]) <= EndOfDay(TheSchedule)

SameAsWeekdayZero ==
    (active # <<>> /\ "weekday" \in DOMAIN TheSchedule /\ TheSchedule.weekday = 7) =>
        active[1] = is_schedule_active(WithWeekday(TheSchedule, 0), reads[1])

\* C6 as stated: a weekday=7 schedule crossing midnight is active on Monday
\* morning with weekday_diff = -6, and agrees with weekday=0 at every instant.
C6_Original ==
    /\ SundayCrossingOnMondayMorning =>
           (active[1] /\ weekday_diff(reads[1], TheSchedule.weekday) = -6)
    /\ SameAsWeekdayZero

\* C6 amended: a weekday=7 schedule crossing midnight is active on Monday
\* morning through the "weekday was yesterday" branch with weekday_diff = 1,
\* and agrees with the same schedule with weekday=0 at every instant.
C6_SundayWraparound ==
    /\ SundayCrossingOnMondayMorning =>
           (active[1] /\ weekday_diff(reads[1], TheSchedule.weekday) = 1)
    /\ SameAsWeekdayZero

C6_Witness == SundayCrossingOnMondayMorning /\ active = <<TRUE>>

----------------------------------------------------------------------------
(* C10 *)

\* the clock reading falls on the weekday and in the minute of the trigger
FiresAt(trigger, t) ==
    /\ trigger.Weekday % 7 = isoweekday(t) % 7
    /\ trigger.Hour = t.hour
    /\ trigger.Minute = t.minute

InTriggerMinute ==
    /\ active # <<>>
    /\ \E i \in 1..Len(startintervals[1]) : FiresAt(startintervals[1][i], reads[1])

\* C10 as stated: at every instant in the minute of a trigger of a schedule,
\* the schedule is active.
C10_Original == InTriggerMinute => active[1]

\* C10 amended: the same for every schedule whose end hour:minute differs
\* from its start hour:minute.
C10_TriggerInsideWindow ==
    (InTriggerMinute /\ StartOfDay(TheSchedule) # EndOfDay(TheSchedule)) => active[1]

\* a run later in the trigger's minute of a proper window finds it active
C10_Witness ==
    /\ InTriggerMinute
    /\ StartOfDay(TheSchedule) # EndOfDay(TheSchedule)
    /\ reads[1].second > 0
    /\ active = <<TRUE>>

----------------------------------------------------------------------------
(* C8 *)

TriggerCount(s) == IF "weekday" \in DOMAIN s THEN 1 ELSE 7

\* the number of triggers of the first n schedules
RECURSIVE TriggersBefore(_, _)
TriggersBefore(ss, n) ==
    IF n = 0 THEN 0 ELSE TriggersBefore(ss, n - 1) + TriggerCount(ss[n])

\* C8: the triggers are, schedule after schedule in input order, one per weekday
\* in ascending order (7 for an unset weekday, 1 otherwise), each with the
\* schedule's start hour and minute; equal triggers are all kept.
C8_TriggerExpansion ==
    startintervals # <<>> =>
        LET out == startintervals[1]
            ss == config.block_schedules
        IN  /\ Len(out) = TriggersBefore(ss, Len(ss))
            /\ \A i \in 1..Len(ss) : \A k \in 1..TriggerCount(ss[i]) :
                   out[TriggersBefore(ss, i - 1) + k] =
                       [Weekday |-> IF "weekday" \in DOMAIN ss[i] THEN ss[i].weekday ELSE k,
                        Minute |-> ss[i].start_minute,
                        Hour |-> ss[i].start_hour]

\* an every-day schedule followed by a one-day schedule with the same start:
\* eight triggers, two of them equal
C8_Witness ==
    /\ startintervals # <<>>
    /\ Len(config.block_schedules) = 2
    /\ "weekday" \notin DOMAIN config.block_schedules[1]
    /\ "weekday" \in DOMAIN config.block_schedules[2]
    /\ Len(startintervals[1]) = 8
    /\ \E i \in 1..7 : startintervals[1][i] = startintervals[1][8]

----------------------------------------------------------------------------
(* C7 *)

\* C7: the string ends in a sign and four digits that form a valid +-HHMM
\* offset (minutes below 60), the sign being "+" exactly for offsets >= 0.
C7_ValidIsoOffset ==
    block_end_date # <<>> =>
        LET suffix == block_end_date[1].suffix
        IN  /\ Len(block_end_date[1].time) = 8
            /\ Len(suffix) = 5
            /\ suffix[1] \in {"+", "-"}
            /\ \A i \in 2..5 : IsDigit(suffix[i])
            /\ TwoDigits(suffix, 4) < 60
            /\ (suffix[1] = "+") <=> (utc_offset[1] >= 0)

----------------------------------------------------------------------------
(* C4 *)

SelectedSchedule == config.block_schedules[schedule]

\* the clock reading taken by get_end_date_of_schedule
EndDateReading == reads[Len(reads)]

\* the instant the returned string denotes, in seconds since day 0
EndDateSeconds ==
    block_end_date[1].date * 86400
        + TimeOfDay(TwoDigits(block_end_date[1].time, 1),
                    TwoDigits(block_end_date[1].time, 4),
                    TwoDigits(block_end_date[1].time, 7))

ActiveOnOwnWeekday ==
    /\ Crosses(SelectedSchedule)
    /\ isoweekday(EndDateReading) \in WeekdaySet(SelectedSchedule)
    /\ NowOfDay(EndDateReading) >= StartOfDay(SelectedSchedule)

\* C4: the end timestamp is the schedule's end hour:minute on the date of the
\* clock reading, never a later day; for a midnight-crossing schedule active on
\* its own weekday it lies before the window's start and before now.
C4_EndAnchoredToToday ==
    block_end_date # <<>> =>
        /\ EndDateSeconds =
               EndDateReading.day * 86400 + EndOfDay(SelectedSchedule)
        /\ ActiveOnOwnWeekday =>
               /\ EndDateSeconds <
                      EndDateReading.day * 86400 + StartOfDay(SelectedSchedule)
               /\ EndDateSeconds <
                      EndDateReading.day * 86400 + NowOfDay(EndDateReading)

C4_Witness == block_end_date # <<>> /\ ActiveOnOwnWeekday

----------------------------------------------------------------------------
(* C3 *)

\* what the call of is_schedule_active on the j-th schedule returned
ReturnedActive(j) == is_schedule_active(config.block_schedules[j], reads[j])

\* C3: the selected schedule is the first, in input order, whose
\* is_schedule_active call returned true; with no schedule, or none active, no
\* schedule is selected and run ends with the "no schedule" outcome.
C3_FirstActiveSelected ==
    /\ schedule # 0 =>
           /\ ReturnedActive(schedule)
           /\ \A j \in 1..(schedule - 1) : ~ReturnedActive(j)
    /\ pc \in {"end_date", "install", "returned"} => schedule # 0
    /\ exit_status = {0} =>
           /\ schedule = 0
           /\ Len(reads) = Len(config.block_schedules)
           /\ \A j \in 1..Len(config.block_schedules) : ~ReturnedActive(j)

\* two different schedules whose windows overlap at the reading: the first wins
C3_Witness ==
    /\ schedule = 1
    /\ Len(config.block_schedules) = 2
    /\ config.block_schedules[1] # config.block_schedules[2]
    /\ is_schedule_active(config.block_schedules[2], reads[1])

----------------------------------------------------------------------------
(* C5 *)

NoneActiveAt(t) ==
    \A j \in 1..Len(config.block_schedules) :
        ~is_schedule_active(config.block_schedules[j], t)

FirstActiveAt(j, t) ==
    /\ is_schedule_active(config.block_schedules[j], t)
    /\ \A i \in 1..(j - 1) : ~is_schedule_active(config.block_schedules[i], t)

\* C5: the outcome of a pass (the selected schedule and its end timestamp, or
\* "no schedule") is the outcome of evaluating every schedule at one instant.
C5_SingleClockReading ==
    /\ exit_status = {0} => \E t \in Instants : NoneActiveAt(t)
    /\ block_end_date # <<>> =>
           \E t \in Instants :
               /\ FirstActiveAt(schedule, t)
               /\ block_end_date[1] =
                      get_end_date_of_schedule(SelectedSchedule, t, utc_offset[1])

----------------------------------------------------------------------------
(* C9 *)

InstallInvoked ==
    \E i \in 1..Len(selfcontrol_args) : selfcontrol_args[i][1] = "--install"

NothingStarted == blocklist = <<>> /\ ~InstallInvoked

\* C9: the blocklist is written and SelfControl --install is invoked only after
\* check_if_running found "NO" and a schedule was found active; a running
\* SelfControl ends run with status 2 and no active schedule with status 0,
\* both without writing the blocklist or invoking --install.
C9_InstallOnlyWhenIdleAndActive ==
    /\ (blocklist # <<>> \/ InstallInvoked) =>
           /\ running = <<"NO">>
           /\ schedule # 0
           /\ ReturnedActive(schedule)
    /\ running = <<"YES">> => (pc = "exited" /\ exit_status = {2})
    /\ exit_status = {2} => (running = <<"YES">> /\ NothingStarted)
    /\ (pc = "exited" /\ running = <<"NO">> /\ schedule = 0) => exit_status = {0}
    /\ exit_status = {0} => (running = <<"NO">> /\ schedule = 0 /\ NothingStarted)

\* SelfControl was idle, a schedule was active, and the block was started
C9_Witness ==
    /\ pc = "returned"
    /\ running = <<"NO">>
    /\ blocklist # <<>>
    /\ InstallInvoked

============================================================================
